---- MODULE Spec2Model ----
(***************************************************************************)
(* Model of adiit_agent/agent.py: the static knowledge table TURKANA_DATA, *)
(* the risk classifier calculate_malaria_risk and the three dispatch       *)
(* functions generate_vlo_manifest, generate_adiit_crisis_response and     *)
(* generate_epidemic_intelligence, each a try/except around one call of    *)
(* the external text-generation collaborator.                              *)
(*                                                                         *)
(* Numbers: the two climate observations are floats in the source.  Here   *)
(* they are fixed-point integers in TENTHS (2.0 is 20, 293.2 is 2932).     *)
(* The divisors 0.5 and 50 are exact binary floats and every multiple of   *)
(* them is too, so float floor division of a tenth-valued input gives the  *)
(* floor of the decimal quotient; \div is floor division.  Fractions of    *)
(* the knowledge table are kept in thousandths (0.062 is 62).              *)
(* Texts returned by the collaborator are sequences of characters.         *)
(***************************************************************************)
EXTENDS Integers, Sequences, FiniteSets, TLC

VARIABLES
    TURKANA_DATA,  \* the module-level knowledge table
    pc,            \* per caller: position inside the function it is running
    kind,          \* per caller: the function it is running
    args,          \* per caller: the arguments of the invocation
    risk_str,      \* per caller: local risk_str of generate_vlo_manifest
    prompt,        \* per caller: local prompt
    response,      \* per caller: local response (the collaborator's reply)
    exc,           \* per caller: the exception in flight or handled (e)
    raisedAt,      \* per caller: the statement that raised it
    result,        \* per caller: the value the function returned
    outcome,       \* per caller: how the invocation ended
    calls          \* per caller: generate_content calls of this invocation

vars == <<TURKANA_DATA, pc, kind, args, risk_str, prompt, response, exc,
          raisedAt, result, outcome, calls>>

----------------------------------------------------------------------------
(* Bounds of the model *)

\* callers that may run functions at the same time (specification SpecConc)
NumCallers == 2
\* longest reply text the collaborator returns
MaxReplyLen == 3
\* temperature anomalies drawn for calculate_malaria_risk: -MaxNegTmax..MaxTmax (tenths)
MaxTmax == 100
MaxNegTmax == 10
\* rainfalls drawn for calculate_malaria_risk: -MaxNegRain..MaxRain (tenths of a mm)
MaxRain == 10000
MaxNegRain == 600

Callers == 1..NumCallers

\* the single caller of the sequential specification Spec: the first one
SeqCaller == CHOOSE c \in Callers : \A d \in Callers : c <= d

----------------------------------------------------------------------------
(* The knowledge table, agent.py lines 22-60 *)

TurkanaTable ==
    [ emergency_declared |-> "2025-09-26",
      kala_azar |->
        [ cases_2025 |-> 2043, peak_june |-> 125, deaths |-> 18, cfr |-> 62,
          demographics |-> [male |-> 720, under_24 |-> 870, malnourished |-> 200],
          hotspots |-> <<"Kerio", "Nakurio", "Nadoto", "Loima", "Kibish", "Kakuma">>,
          vectors |-> <<"sandfly_anthills", "cracked_soil">> ],
      malaria |->
        [ prevalence |-> 390, smc_reduction_2024 |-> 700,
          kakuma_attack_rate_2005 |-> 122,
          habitats |-> <<"tap_stand_pits", "drainage_channels">>,
          early_warning_model |->
            [ threshold |-> 30,
              tmax_code |-> <<0, 1, 2, 3, 4, 5>>,
              rainfall_code |-> <<0, 1, 2, 3, 4, 5, 6>>,
              risk_formula |-> "Tmax_Code + Rainfall_Code" ] ],
      gaps |->
        [ blood |-> [needed_quarter |-> 1000, donated |-> 120],
          stockouts |-> <<"RK39", "DAT", "SSG_PM", "Amphotericin B">>,
          lost_followup |-> 25 ],
      interventions |-> [smc |-> TRUE, lsm |-> TRUE, four_pillar |-> TRUE],
      logistics |-> [vehicles |-> 1, facilities |-> 132, area_km2 |-> 71597] ]

----------------------------------------------------------------------------
(* calculate_malaria_risk, agent.py lines 65-79 *)

\* 0.5 degrees, in tenths (line 70)
TmaxStep == 5
\* 50 mm, in tenths of a mm (line 71)
RainStep == 500
\* the caps of the two codes (lines 70, 71)
TmaxCap == 5
RainCap == 6
\* the epidemic threshold (lines 75, 78)
Threshold == 30

Min(a, b) == IF a <= b THEN a ELSE b

\* int(x // step): // floors the quotient (towards minus infinity) and int()
\* of the integral float it yields changes nothing
FloorDiv(x, step) == x \div step

\* faulty variants of the classifier: exclusive threshold, caps swapped,
\* rainfall code not capped
calculate_malaria_risk_exclusive(tmax_anomaly, rainfall_mm) ==
    LET tmax_code == Min(FloorDiv(tmax_anomaly, TmaxStep), TmaxCap)
        rainfall_code == Min(FloorDiv(rainfall_mm, RainStep), RainCap)
        risk_percent == (tmax_code + rainfall_code) * 10
    IN  [ risk_percent |-> risk_percent,
          epidemic |-> risk_percent > Threshold,
          tmax_code |-> tmax_code,
          rainfall_code |-> rainfall_code,
          threshold |-> Threshold ]

calculate_malaria_risk_swapped_caps(tmax_anomaly, rainfall_mm) ==
    LET tmax_code == Min(FloorDiv(tmax_anomaly, TmaxStep), RainCap)
        rainfall_code == Min(FloorDiv(rainfall_mm, RainStep), TmaxCap)
        risk_percent == (tmax_code + rainfall_code) * 10
    IN  [ risk_percent |-> risk_percent,
          epidemic |-> risk_percent >= Threshold,
          tmax_code |-> tmax_code,
          rainfall_code |-> rainfall_code,
          threshold |-> Threshold ]

calculate_malaria_risk_uncapped_rain(tmax_anomaly, rainfall_mm) ==
    LET tmax_code == Min(FloorDiv(tmax_anomaly, TmaxStep), TmaxCap)
        rainfall_code == FloorDiv(rainfall_mm, RainStep)
        risk_percent == (tmax_code + rainfall_code) * 10
    IN  [ risk_percent |-> risk_percent,
          epidemic |-> risk_percent >= Threshold,
          tmax_code |-> tmax_code,
          rainfall_code |-> rainfall_code,
          threshold |-> Threshold ]

calculate_malaria_risk(tmax_anomaly, rainfall_mm) ==
    LET tmax_code == Min(FloorDiv(tmax_anomaly, TmaxStep), TmaxCap)
        rainfall_code == Min(FloorDiv(rainfall_mm, RainStep), RainCap)
        risk_percent == (tmax_code + rainfall_code) * 10
    IN  [ risk_percent |-> risk_percent,
          epidemic |-> risk_percent >= Threshold,
          tmax_code |-> tmax_code,
          rainfall_code |-> rainfall_code,
          threshold |-> Threshold ]

----------------------------------------------------------------------------
(* Values *)

\* Optional[float]: None, or a supplied number
None == <<>>
Some(v) == <<v>>

\* Python truthiness of an Optional[float]: None and 0 are falsy
Truthy(x) == x # None /\ x[1] # 0

\* the caller supplied the observation
Supplied(x) == x # None

\* characters of a reply text; str.strip() removes the whitespace ones
Chars == {" ", "\n", "X"}
Whitespace == {" ", "\n"}
isspace(ch) == ch \in Whitespace

Texts(n) == UNION {[1..k -> Chars] : k \in 0..n}

RECURSIVE lstrip(_)
lstrip(s) == IF s # <<>> /\ isspace(Head(s)) THEN lstrip(Tail(s)) ELSE s

RECURSIVE rstrip(_)
rstrip(s) ==
    IF s # <<>> /\ isspace(s[Len(s)]) THEN rstrip(SubSeq(s, 1, Len(s) - 1)) ELSE s

\* faulty variant: only the leading whitespace is removed
strip_leading_only(s) == lstrip(s)

\* str.strip() with no argument (lines 108, 138, 171)
strip(s) == rstrip(lstrip(s))

\* the three dispatch functions and the classifier
VLO == "generate_vlo_manifest"
ADIIT == "generate_adiit_crisis_response"
INTEL == "generate_epidemic_intelligence"
RISK == "calculate_malaria_risk"
Dispatchers == {VLO, ADIIT, INTEL}

\* the key under which each dispatch function returns the reply text
TextField(fn) ==
    CASE fn = VLO -> "manifest"
      [] fn = ADIIT -> "crisis_response"
      [] fn = INTEL -> "intelligence_report"

TextFields == {"manifest", "crisis_response", "intelligence_report"}

----------------------------------------------------------------------------
(* Exceptions *)

\* the classes the collaborator's client raises, with their bases
Base(cls) ==
    CASE cls = "GoogleAPIError" -> "Exception"
      [] cls = "ValueError" -> "Exception"
      [] cls = "ZoneInfoNotFoundError" -> "KeyError"
      [] cls = "KeyError" -> "LookupError"
      [] cls = "LookupError" -> "Exception"
      [] cls = "Exception" -> "BaseException"
      [] OTHER -> "object"

RECURSIVE issubclass(_, _)
issubclass(cls, of) ==
    \/ cls = of
    \/ cls \notin {"BaseException", "object"} /\ issubclass(Base(cls), of)

\* a failure the collaborator raises: a class and the text it carries, if any
CollaboratorFailures ==
    [cls : {"GoogleAPIError", "ValueError"}, args : {<<>>, <<"429 quota exceeded">>}]

\* response.text of a reply without a valid text part
NoTextPart == [cls |-> "ValueError", args |-> <<"response has no valid Part">>]

\* ZoneInfo("Africa/Nairobi") without time zone data
NoZone ==
    [cls |-> "ZoneInfoNotFoundError",
     args |-> <<"No time zone found with key Africa/Nairobi">>]

NoExc == [cls |-> "none", args |-> <<>>]

\* str(e): "" without arguments, else the argument (KeyError gives its repr)
str(e) ==
    IF e.args = <<>> THEN ""
    ELSE IF issubclass(e.cls, "KeyError") THEN "'" \o e.args[1] \o "'"
    ELSE e.args[1]

\* faulty variant: except ValueError
CatchesValueErrorOnly(e) == issubclass(e.cls, "ValueError")

\* except Exception as e (lines 111, 141, 174)
Catches(e) == issubclass(e.cls, "Exception")

\* datetime.now(ZoneInfo("Africa/Nairobi")).isoformat()
Timestamps == {"2025-10-22T09:00:00+03:00", "2025-10-22T09:00:01+03:00"}

----------------------------------------------------------------------------
(* Result records *)

NoResult == [status |-> "none"]

\* faulty variant: the handler also stamps the error
ErrorRecordStamped(e) ==
    [status |-> "error", message |-> str(e),
     generated_at |-> "2025-10-22T09:00:00+03:00"]

\* faulty variant: the handler reports the class, not the text
ErrorRecordClassName(e) == [status |-> "error", message |-> e.cls]

\* lines 112, 142, 175
ErrorRecord(e) == [status |-> "error", message |-> str(e)]

\* lines 105-110, 135-140, 169-173
SuccessRecord(fn, text, now) ==
    CASE fn = VLO ->
           [status |-> "success", agent |-> "V-LO", manifest |-> text,
            generated_at |-> now]
      [] fn = ADIIT ->
           [status |-> "success", agent |-> "ADIIT", crisis_response |-> text,
            generated_at |-> now]
      [] fn = INTEL ->
           [status |-> "success", intelligence_report |-> text,
            generated_at |-> now]

\* the line f"Malaria Risk: {risk['risk_percent']}% | Epidemic: {risk['epidemic']}"
RiskLine(risk) ==
    <<[risk_percent |-> risk.risk_percent, epidemic |-> risk.epidemic]>>

NoPrompt == [persona |-> "none"]
NoResponse == [readable |-> FALSE, text |-> <<>>]
NoArgs == [fn |-> "none", text |-> "", tmax |-> None, rain |-> None]

----------------------------------------------------------------------------
(* Inputs *)

Queries == {"June 2025 surge in Loima?"}

\* observations passed to generate_vlo_manifest (tenths): not supplied, 0, 0.4,
\* 2.0, 3.0 degrees and not supplied, 0, 10, 293.2 mm
OptTmax == {None, Some(0), Some(4), Some(20), Some(30)}
OptRain == {None, Some(0), Some(100), Some(2932)}

\* observations passed to calculate_malaria_risk directly: every tenth of a
\* degree; every whole mm, the tenth of a mm below every multiple of 50 mm,
\* and the rainfall 293.2 of the documented example
TmaxGrid == (-MaxNegTmax)..MaxTmax
RainGrid ==
    {r \in (-MaxNegRain)..MaxRain : r % 10 = 0 \/ r % RainStep = RainStep - 1}
        \cup {2932}

Invocations ==
    {[fn |-> RISK, text |-> "", tmax |-> Some(t), rain |-> Some(r)] :
        t \in TmaxGrid, r \in RainGrid}
    \cup {[fn |-> VLO, text |-> q, tmax |-> t, rain |-> r] :
        q \in Queries, t \in OptTmax, r \in OptRain}
    \cup {[fn |-> fn, text |-> q, tmax |-> None, rain |-> None] :
        fn \in {ADIIT, INTEL}, q \in Queries}

Replies == Texts(MaxReplyLen)

\* the inputs of the concurrent specification: one of each
ConcInvocations ==
    { [fn |-> RISK, text |-> "", tmax |-> Some(20), rain |-> Some(2932)],
      [fn |-> VLO, text |-> "June 2025 surge in Loima?", tmax |-> Some(20),
       rain |-> Some(2932)],
      [fn |-> ADIIT, text |-> "June 2025 surge in Loima?", tmax |-> None,
       rain |-> None],
      [fn |-> INTEL, text |-> "June 2025 surge in Loima?", tmax |-> None,
       rain |-> None] }
ConcReplies == {<<" ", "X", "\n">>}
ConcFailures == {[cls |-> "GoogleAPIError", args |-> <<>>]}
ConcTimestamps == {"2025-10-22T09:00:00+03:00"}

----------------------------------------------------------------------------
(* Initial state: the module is loaded, no function is running *)

Init ==
    /\ TURKANA_DATA = TurkanaTable
    /\ pc = [c \in Callers |-> "idle"]
    /\ kind = [c \in Callers |-> "none"]
    /\ args = [c \in Callers |-> NoArgs]
    /\ risk_str = [c \in Callers |-> <<>>]
    /\ prompt = [c \in Callers |-> NoPrompt]
    /\ response = [c \in Callers |-> NoResponse]
    /\ exc = [c \in Callers |-> NoExc]
    /\ raisedAt = [c \in Callers |-> "none"]
    /\ result = [c \in Callers |-> NoResult]
    /\ outcome = [c \in Callers |-> "none"]
    /\ calls = [c \in Callers |-> 0]

----------------------------------------------------------------------------
(* Steps of an invocation *)

\* a statement of the try block raises e: control goes to the except clause
Raise(c, e, at) ==
    /\ exc' = [exc EXCEPT ![c] = e]
    /\ raisedAt' = [raisedAt EXCEPT ![c] = at]
    /\ pc' = [pc EXCEPT ![c] = "except"]

\* a caller calls one of the four functions.  calculate_malaria_risk is pure
\* and returns at once; a dispatch function enters its try block.
Invoke(c, invocations) ==
    /\ pc[c] = "idle"
    /\ \E a \in invocations :
        /\ kind' = [kind EXCEPT ![c] = a.fn]
        /\ args' = [args EXCEPT ![c] = a]
        /\ IF a.fn = RISK
           THEN /\ result' = [result EXCEPT
                      ![c] = calculate_malaria_risk(a.tmax[1], a.rain[1])]
                /\ outcome' = [outcome EXCEPT ![c] = "returned"]
                /\ pc' = [pc EXCEPT ![c] = "done"]
           ELSE /\ pc' = [pc EXCEPT ![c] = "construct"]
                /\ UNCHANGED <<result, outcome>>
    /\ UNCHANGED <<TURKANA_DATA, risk_str, prompt, response, exc, raisedAt, calls>>

\* model = GenerativeModel('gemini-2.0-flash-exp') (lines 86, 119, 149)
Construct(c, failures) ==
    /\ pc[c] = "construct"
    /\ \/ /\ pc' = [pc EXCEPT ![c] = "prompt"]
          /\ UNCHANGED <<exc, raisedAt>>
       \/ \E e \in failures : Raise(c, e, "construct")
    /\ UNCHANGED <<TURKANA_DATA, kind, args, risk_str, prompt, response, result,
                   outcome, calls>>

\* risk_str of generate_vlo_manifest (lines 87-90); the other two functions
\* have no such line
RiskStr(fn, tmax, rain) ==
    IF fn = VLO /\ Truthy(tmax) /\ Truthy(rain)
    THEN RiskLine(calculate_malaria_risk(tmax[1], rain[1]))
    ELSE <<>>

\* what building the prompt changes, the table apart
PromptLocals(c) ==
    /\ pc[c] = "prompt"
    /\ risk_str' = [risk_str EXCEPT
           ![c] = RiskStr(kind[c], args[c].tmax, args[c].rain)]
    /\ prompt' = [prompt EXCEPT
           ![c] = [persona |-> kind[c], data |-> TURKANA_DATA,
                   text |-> args[c].text, risk |-> risk_str'[c]]]
    /\ pc' = [pc EXCEPT ![c] = "generate"]
    /\ UNCHANGED <<kind, args, response, exc, raisedAt, result, outcome, calls>>

\* faulty variant: the function records the latest query in the table
BuildPromptRecordingQuery(c) ==
    /\ PromptLocals(c)
    /\ TURKANA_DATA' = [TURKANA_DATA EXCEPT !.emergency_declared = args[c].text]

\* the prompt f-string (lines 87-102, 120-132, 150-166): json.dumps reads the table
BuildPrompt(c) ==
    /\ PromptLocals(c)
    /\ UNCHANGED TURKANA_DATA

\* faulty variant: one retry after a failure
GenerateContentRetrying(c, replies, failures) ==
    /\ pc[c] = "generate"
    /\ \/ /\ calls' = [calls EXCEPT ![c] = @ + 1]
          /\ \E r \in replies :
                response' = [response EXCEPT ![c] = [readable |-> TRUE, text |-> r]]
          /\ pc' = [pc EXCEPT ![c] = "return"]
          /\ UNCHANGED <<exc, raisedAt>>
       \/ /\ calls' = [calls EXCEPT ![c] = @ + 2]
          /\ \E e \in failures : Raise(c, e, "generate")
          /\ UNCHANGED response
    /\ UNCHANGED <<TURKANA_DATA, kind, args, risk_str, prompt, result, outcome>>

\* response = model.generate_content(prompt) (lines 103, 133, 167): the one
\* outbound call.  It returns a reply with a text, a reply with no valid text
\* part, or raises.
GenerateContent(c, replies, failures) ==
    /\ pc[c] = "generate"
    /\ calls' = [calls EXCEPT ![c] = @ + 1]
    /\ \/ /\ \E r \in replies :
                response' = [response EXCEPT ![c] = [readable |-> TRUE, text |-> r]]
          /\ pc' = [pc EXCEPT ![c] = "return"]
          /\ UNCHANGED <<exc, raisedAt>>
       \/ /\ response' = [response EXCEPT ![c] = [readable |-> FALSE, text |-> <<>>]]
          /\ pc' = [pc EXCEPT ![c] = "return"]
          /\ UNCHANGED <<exc, raisedAt>>
       \/ /\ \E e \in failures : Raise(c, e, "generate")
          /\ UNCHANGED response
    /\ UNCHANGED <<TURKANA_DATA, kind, args, risk_str, prompt, result, outcome>>

\* the return statement of the try block (lines 105-110, 135-140, 169-173):
\* response.text is read and stripped, then the time stamp is taken, then the
\* record is returned; reading the text or finding the time zone may raise
Return(c, timestamps) ==
    /\ pc[c] = "return"
    /\ \/ /\ ~response[c].readable
          /\ Raise(c, NoTextPart, "text")
          /\ UNCHANGED <<result, outcome>>
       \/ /\ response[c].readable
          /\ Raise(c, NoZone, "timestamp")
          /\ UNCHANGED <<result, outcome>>
       \/ /\ response[c].readable
          /\ \E now \in timestamps :
                result' = [result EXCEPT
                    ![c] = SuccessRecord(kind[c], strip(response[c].text), now)]
          /\ outcome' = [outcome EXCEPT ![c] = "returned"]
          /\ pc' = [pc EXCEPT ![c] = "done"]
          /\ UNCHANGED <<exc, raisedAt>>
    /\ UNCHANGED <<TURKANA_DATA, kind, args, risk_str, prompt, response, calls>>

\* except Exception as e: return {"status": "error", "message": str(e)}
\* (lines 111-112, 141-142, 174-175); an exception the clause does not catch
\* leaves the function
Except(c) ==
    /\ pc[c] = "except"
    /\ IF Catches(exc[c])
       THEN /\ result' = [result EXCEPT ![c] = ErrorRecord(exc[c])]
            /\ outcome' = [outcome EXCEPT ![c] = "returned"]
       ELSE /\ outcome' = [outcome EXCEPT ![c] = "raised"]
            /\ UNCHANGED result
    /\ pc' = [pc EXCEPT ![c] = "done"]
    /\ UNCHANGED <<TURKANA_DATA, kind, args, risk_str, prompt, response, exc,
                   raisedAt, calls>>

\* the caller takes the result; the locals of the invocation are gone
Finish(c) ==
    /\ pc[c] = "done"
    /\ pc' = [pc EXCEPT ![c] = "idle"]
    /\ kind' = [kind EXCEPT ![c] = "none"]
    /\ args' = [args EXCEPT ![c] = NoArgs]
    /\ risk_str' = [risk_str EXCEPT ![c] = <<>>]
    /\ prompt' = [prompt EXCEPT ![c] = NoPrompt]
    /\ response' = [response EXCEPT ![c] = NoResponse]
    /\ exc' = [exc EXCEPT ![c] = NoExc]
    /\ raisedAt' = [raisedAt EXCEPT ![c] = "none"]
    /\ result' = [result EXCEPT ![c] = NoResult]
    /\ outcome' = [outcome EXCEPT ![c] = "none"]
    /\ calls' = [calls EXCEPT ![c] = 0]
    /\ UNCHANGED TURKANA_DATA

----------------------------------------------------------------------------
(* Specifications *)

\* one caller, one invocation after the other, every input
Next ==
    \/ Invoke(SeqCaller, Invocations)
    \/ Construct(SeqCaller, CollaboratorFailures)
    \/ BuildPrompt(SeqCaller)
    \/ GenerateContent(SeqCaller, Replies, CollaboratorFailures)
    \/ Return(SeqCaller, Timestamps)
    \/ Except(SeqCaller)
    \/ Finish(SeqCaller)

Spec == Init /\ [][Next]_vars

\* several callers whose invocations interleave statement by statement
NextConc ==
    \E c \in Callers :
        \/ Invoke(c, ConcInvocations)
        \/ Construct(c, ConcFailures)
        \/ BuildPrompt(c)
        \/ GenerateContent(c, ConcReplies, ConcFailures)
        \/ Return(c, ConcTimestamps)
        \/ Except(c)
        \/ Finish(c)

SpecConc == Init /\ [][NextConc]_vars

----------------------------------------------------------------------------
(* Properties *)

\* caller c has finished an invocation of a dispatch function
Dispatched(c) == pc[c] = "done" /\ kind[c] \in Dispatchers

\* caller c has finished a direct call of calculate_malaria_risk
Classified(c) == pc[c] = "done" /\ kind[c] = RISK

\* the statements at which the collaborator itself raises
CollaboratorPoints == {"construct", "generate", "text"}

\* C1: in each dispatch function, a failure the collaborator raises while the
\* client is constructed, during generate_content or while the reply text is
\* read ends in a returned record whose status is "error"; no invocation ends
\* with an exception leaving the function.
C1_FailureIsReturnedAsError ==
    \A c \in Callers :
        /\ outcome[c] # "raised"
        /\ (Dispatched(c) /\ raisedAt[c] \in CollaboratorPoints) =>
               (outcome[c] = "returned" /\ result[c].status = "error")

C1_Witness ==
    \E c \in Callers :
        /\ Dispatched(c) /\ kind[c] = ADIIT
        /\ raisedAt[c] = "text"
        /\ outcome[c] = "returned" /\ result[c].status = "error"

\* C2: a record a dispatch function returns is either a success record (status
\* "success", the text field of its kind and no other kind's, generated_at,
\* no message) or an error record (status "error", message, no text field,
\* no generated_at), whatever statement failed.
C2_TwoVariants ==
    \A c \in Callers :
        (Dispatched(c) /\ outcome[c] = "returned") =>
            LET r == result[c]
                keys == DOMAIN r
            IN  \/ /\ r.status = "success"
                   /\ {"status", TextField(kind[c]), "generated_at"} \subseteq keys
                   /\ keys \cap TextFields = {TextField(kind[c])}
                   /\ "message" \notin keys
                \/ /\ r.status = "error"
                   /\ "message" \in keys
                   /\ keys \cap (TextFields \cup {"generated_at"}) = {}

\* the failure comes last, after the reply text was read and stripped
C2_Witness ==
    \E c \in Callers :
        /\ Dispatched(c) /\ kind[c] = INTEL
        /\ raisedAt[c] = "timestamp" /\ response[c].readable
        /\ DOMAIN result[c] = {"status", "message"}

\* C3 as stated: whenever the collaborator raises, the message of the error
\* record is a non-empty string, also for a failure that carries no text.
C3_MessageNonEmpty ==
    \A c \in Callers :
        (Dispatched(c) /\ raisedAt[c] \in CollaboratorPoints) =>
            (result[c].status = "error" /\ result[c].message # "")

\* C3 amended: whenever the collaborator raises, the message of the error
\* record is the text the failure carries; it is the empty string when the
\* failure carries none, and non-empty otherwise.
C3_MessageIsFailureText ==
    \A c \in Callers :
        (Dispatched(c) /\ raisedAt[c] \in CollaboratorPoints) =>
            /\ result[c].status = "error"
            /\ exc[c].args = <<>> => result[c].message = ""
            /\ exc[c].args # <<>> =>
                   (result[c].message = exc[c].args[1] /\ result[c].message # "")

C3_Witness ==
    \E c \in Callers :
        /\ Dispatched(c) /\ kind[c] = VLO
        /\ raisedAt[c] = "generate" /\ exc[c].args = <<>>
        /\ result[c] = [status |-> "error", message |-> ""]

\* C4 as stated: every invocation of a dispatch function makes exactly one
\* call of generate_content, also when it ends in an error record.
C4_ExactlyOneCall == \A c \in Callers : Dispatched(c) => calls[c] = 1

\* C4 amended: an invocation never makes more than one call of
\* generate_content (no retry after a failure); it ends having made exactly
\* one, except that it has made none when the failure was raised before that
\* statement, while the client was constructed.
C4_AtMostOneCall ==
    \A c \in Callers :
        /\ calls[c] <= 1
        /\ Dispatched(c) => calls[c] = (IF raisedAt[c] = "construct" THEN 0 ELSE 1)

C4_Witness ==
    \E c \in Callers :
        /\ Dispatched(c) /\ kind[c] = INTEL
        /\ raisedAt[c] = "generate" /\ result[c].status = "error"
        /\ calls[c] = 1

\* C5: the prompt of generate_vlo_manifest holds the risk summary of
\* calculate_malaria_risk(tmax, rain) whenever both observations were
\* supplied, 0 included, and none otherwise; the prompts of the other two
\* functions hold none.
C5_RiskSummaryWhenSupplied ==
    \A c \in Callers :
        (kind[c] \in Dispatchers /\ prompt[c] # NoPrompt) =>
            prompt[c].risk =
                IF kind[c] = VLO /\ Supplied(args[c].tmax) /\ Supplied(args[c].rain)
                THEN RiskLine(calculate_malaria_risk(args[c].tmax[1], args[c].rain[1]))
                ELSE <<>>

\* C6: for an anomaly in [0, 10) and a rainfall in [0, 1000) (tenths: below
\* 100 and below 10000), tmax_code is 5 from 2.5 degrees on and below that
\* the k with 0.5 k <= anomaly < 0.5 (k + 1); rainfall_code is 6 from 300 mm
\* on and below that the k with 50 k <= rainfall < 50 (k + 1).
C6_CodesAreCappedFloors ==
    \A c \in Callers :
        LET t == args[c].tmax[1]
            r == args[c].rain[1]
            tc == result[c].tmax_code
            rc == result[c].rainfall_code
        IN  (Classified(c) /\ 0 <= t /\ t < 100 /\ 0 <= r /\ r < 10000) =>
                /\ t >= 25 => tc = 5
                /\ t < 25 => (5 * tc <= t /\ t < 5 * (tc + 1))
                /\ r >= 3000 => rc = 6
                /\ r < 3000 => (500 * rc <= r /\ r < 500 * (rc + 1))

\* both codes just saturated: 2.5 degrees and 300 mm
C6_Witness ==
    \E c \in Callers :
        /\ Classified(c)
        /\ args[c].tmax = Some(25) /\ args[c].rain = Some(3000)
        /\ result[c].tmax_code = 5 /\ result[c].rainfall_code = 6

\* C7: risk_percent is ten times the sum of the two codes and epidemic is true
\* exactly from risk_percent 30 on; (2.0, 293.2) gives codes 4 and 5, 90 and
\* true; (0.4, 10) gives 0 and false.
C7_RiskAndEpidemic ==
    \A c \in Callers :
        Classified(c) =>
            LET res == result[c] IN
            /\ res.risk_percent = (res.tmax_code + res.rainfall_code) * 10
            /\ res.epidemic = (res.risk_percent >= 30)
            /\ (args[c].tmax = Some(20) /\ args[c].rain = Some(2932)) =>
                   (/\ res.tmax_code = 4 /\ res.rainfall_code = 5
                    /\ res.risk_percent = 90 /\ res.epidemic = TRUE)
            /\ (args[c].tmax = Some(4) /\ args[c].rain = Some(100)) =>
                   (res.risk_percent = 0 /\ res.epidemic = FALSE)

\* the threshold itself
C7_Witness ==
    \E c \in Callers :
        /\ Classified(c)
        /\ result[c].risk_percent = 30 /\ result[c].epidemic = TRUE

\* C8 as stated: every assessment has tmax_code in 0..5 and rainfall_code
\* in 0..6.
C8_CodesInRange ==
    \A c \in Callers :
        Classified(c) =>
            (result[c].tmax_code \in 0..5 /\ result[c].rainfall_code \in 0..6)

\* C8 amended: tmax_code is at most 5 and rainfall_code at most 6 for every
\* input; tmax_code is in 0..5 when the anomaly is not negative and
\* rainfall_code in 0..6 when the rainfall is not negative; a negative input
\* gives a negative code.
C8_CodesInRangeForNonNegative ==
    \A c \in Callers :
        Classified(c) =>
            LET t == args[c].tmax[1]
                r == args[c].rain[1]
                tc == result[c].tmax_code
                rc == result[c].rainfall_code
            IN  /\ tc <= 5 /\ rc <= 6
                /\ t >= 0 => tc \in 0..5
                /\ r >= 0 => rc \in 0..6
                /\ t < 0 => tc < 0
                /\ r < 0 => rc < 0

\* far above saturation: 10 degrees and 1000 mm
C8_Witness ==
    \E c \in Callers :
        /\ Classified(c)
        /\ args[c].tmax = Some(100) /\ args[c].rain = Some(10000)
        /\ result[c].tmax_code = 5 /\ result[c].rainfall_code = 6

\* C9: in a success record the text field is the reply without its leading
\* and trailing whitespace: the reply is whitespace, then the field, then
\* whitespace, and the field neither starts nor ends with whitespace; the
\* reply " X\n" gives "X".
C9_TextIsStrippedReply ==
    \A c \in Callers :
        (Dispatched(c) /\ result[c].status = "success") =>
            LET t == result[c][TextField(kind[c])]
                r == response[c].text
            IN  /\ t # <<>> => (~isspace(t[1]) /\ ~isspace(t[Len(t)]))
                /\ \E i \in 0..Len(r) : \E j \in i..Len(r) :
                      /\ SubSeq(r, i + 1, j) = t
                      /\ \A k \in 1..i : isspace(r[k])
                      /\ \A k \in (j + 1)..Len(r) : isspace(r[k])
                /\ r = <<" ", "X", "\n">> => t = <<"X">>

C9_Witness ==
    \E c \in Callers :
        /\ Dispatched(c) /\ kind[c] = INTEL
        /\ response[c].text = <<" ", "X", "\n">>
        /\ result[c].status = "success"
        /\ result[c].intelligence_report = <<"X">>

\* C10: whatever functions are called, in whatever order and however their
\* statements interleave, and however they end, TURKANA_DATA keeps the value
\* it had when the module was loaded.
C10_TableNeverWritten == TURKANA_DATA = TurkanaTable

\* two invocations have run side by side, one ended in success, one in error
C10_Witness ==
    /\ TURKANA_DATA = TurkanaTable
    /\ \E c, d \in Callers :
        /\ c # d
        /\ Dispatched(c) /\ result[c].status = "success"
        /\ Dispatched(d) /\ result[d].status = "error"

====
